---- MODULE Spec2Model ----
(***************************************************************************)
(* ATS resume agent: the four-stage pipeline (crew.py), its prompt         *)
(* builders (tasks.py), its agent configurations (agents.py), the text     *)
(* extractor (file_tools/file_loader.py), the two front-ends               *)
(* (app.py: Flask, streamlit_app.py: Streamlit) with their evaluation      *)
(* parser, and the PDF generator (pdf_generator.py).                       *)
(*                                                                         *)
(* A text (a Python str) is a sequence of one-character strings.           *)
(***************************************************************************)
EXTENDS Integers, Sequences, FiniteSets, TLC

VARIABLES
    config,      \* whether OPENAI_API_KEY is in os.environ when the process starts
    gen,         \* the texts the generation capability may return
    frontend,    \* "flask" (app.py) or "streamlit" (streamlit_app.py)
    upload,      \* the uploaded file: request.files['resume'] / up
    form,        \* the job title and job description as typed
    pc,          \* where the handler is
    pass,        \* which of the Streamlit script's two processing blocks runs
    loc,         \* the handler's job_title, job_description and raw_text
    stream_read, \* the upload's stream has been read to its end
    extracted,   \* what each call of detect_and_extract gave, in order
    run,         \* run_pipeline's arguments and locals
    events,      \* the calls of the generation capability, their returns and raises
    out,         \* what the front-end gave back, in order
    t_pc,        \* prompt-builder harness: "in" before, the builder's name after
    t_text,      \* prompt-builder harness: the upstream resume text
    t_jd,        \* prompt-builder harness: the job description
    t_task,      \* prompt-builder harness: the Task the builder returned
    e_text,      \* parser harness: the evaluation text run_pipeline returned
    e_flask,     \* parser harness: what app.py makes of it
    e_view,      \* parser harness: what streamlit_app.py's score tab makes of it
    c_runs,      \* concurrent runs: the frame of each call of run_pipeline
    p_pc,        \* PDF harness: "in" before generate_pdf_resume, "built" after
    p_text,      \* PDF harness: text_content
    p_elements   \* PDF harness: the flowables handed to doc.build, in order

mainVars == <<config, gen, frontend, upload, form, pc, pass, loc, stream_read, extracted, run, events, out>>
truncVars == <<t_pc, t_text, t_jd, t_task>>
evalVars == <<e_text, e_flask, e_view>>
concVars == <<c_runs>>
pdfVars == <<p_pc, p_text, p_elements>>
vars == <<mainVars, truncVars, evalVars, concVars, pdfVars>>

(***************************************************************************)
(* Bounds of the model.                                                    *)
(***************************************************************************)
\* Input lengths are taken within Margin of every truncation budget.
Margin == 1
\* The length of the long raw text of the spec's end-to-end scenario 2.
LongLen == 5000
\* The parser harness decodes every text of at most this many characters.
MaxEvalLen == 3
\* The PDF harness renders every text of at most this many characters.
MaxPdfLen == 3

(***************************************************************************)
(* Python str helpers.                                                     *)
(***************************************************************************)
NoText == <<>>
\* No Task (yet), and no parse (yet).
NoTask == [description |-> [template |-> "", args |-> <<>>],
           agent |-> [role |-> ""], expected_output |-> ""]
NotYet == [raised |-> FALSE, done |-> FALSE]

\* The characters str.strip() removes (the ones the model's texts use).
Whitespace == {" ", "\t", "\n", "\r"}

MinOf(S) == CHOOSE x \in S : \A y \in S : x <= y
MaxOf(S) == CHOOSE x \in S : \A y \in S : x >= y

\* s[:n]
Prefix(s, n) == SubSeq(s, 1, IF Len(s) < n THEN Len(s) ELSE n)

\* The mutant: s.lstrip()
StripLeading(s) ==
    LET keep == {i \in 1..Len(s) : s[i] \notin Whitespace}
    IN  IF keep = {} THEN NoText ELSE SubSeq(s, MinOf(keep), Len(s))

\* s.strip()
Strip(s) ==
    LET keep == {i \in 1..Len(s) : s[i] \notin Whitespace}
    IN  IF keep = {} THEN NoText ELSE SubSeq(s, MinOf(keep), MaxOf(keep))

\* not s.strip(): the text is empty or whitespace-only
Blank(s) == Strip(s) = NoText

(***************************************************************************)
(* agents.py: the four agent configurations.  temperature is in tenths.    *)
(***************************************************************************)
MODEL == "gpt-4.1-nano"

build_parser_agent ==
    [role |-> "Resume Parsing Specialist", model |-> MODEL,
     temperature_tenths |-> 0, max_iter |-> 1, max_execution_time |-> 120]

build_ats_writer_agent ==
    [role |-> "ATS Optimization Writer", model |-> MODEL,
     temperature_tenths |-> 3, max_iter |-> 1, max_execution_time |-> 120]

build_evaluator_agent ==
    [role |-> "ATS Evaluator", model |-> MODEL,
     temperature_tenths |-> 0, max_iter |-> 1, max_execution_time |-> 120]

\* The mutant: the refiner may try three times.
build_refiner_agent_retrying ==
    [role |-> "Bullet Point Refiner", model |-> MODEL,
     temperature_tenths |-> 2, max_iter |-> 3, max_execution_time |-> 120]

build_refiner_agent ==
    [role |-> "Bullet Point Refiner", model |-> MODEL,
     temperature_tenths |-> 2, max_iter |-> 1, max_execution_time |-> 120]

(***************************************************************************)
(* tasks.py: the prompt builders.  A Task's description is its f-string:   *)
(* the literal template and, in order, the texts interpolated into it.     *)
(***************************************************************************)
ParseResumeBudget == 1500
RewriteResumeBudget == 1200
RewriteJdBudget == 300
RefineResumeBudget == 1000
EvaluateResumeBudget == 800
EvaluateJdBudget == 200

\* The number of characters of each description's literal text.
ParseFixedLength == 116
RewriteFixedLength == 127
RefineFixedLength == 104
EvaluateFixedLength == 177

\* The suffix "..." appended to a cut text.
Marker == <<".", ".", ".">>

\* The mutant: cuts at len(text) >= n instead of len(text) > n.
TruncateAtOrOver(text, n) == IF Len(text) >= n THEN Prefix(text, n) \o Marker ELSE text

\* text[:n] + "..." if len(text) > n else text
Truncate(text, n) == IF Len(text) > n THEN Prefix(text, n) \o Marker ELSE text

parse_resume_task(agent, raw_resume_text) ==
    LET truncated_text == Truncate(raw_resume_text, ParseResumeBudget)
    IN  [description |->
            [template |-> "Clean this resume text quickly:\n\n{0}\n\nRemove artifacts, normalize bullets to '-', keep all content. Be fast and direct.",
             args |-> <<truncated_text>>],
         agent |-> agent,
         expected_output |-> "Clean resume text with proper structure."]

rewrite_for_ats_task(agent, cleaned_resume_text, job_title, job_description) ==
    LET truncated_resume == Truncate(cleaned_resume_text, RewriteResumeBudget)
        truncated_jd == Truncate(job_description, RewriteJdBudget)
    IN  [description |->
            [template |-> "Rewrite resume for {0}:\n\nJOB: {1}\n\nRESUME: {2}\n\nMatch keywords, use action verbs, add metrics. Target 80+ ATS score. Be direct and fast.",
             args |-> <<job_title, truncated_jd, truncated_resume>>],
         agent |-> agent,
         expected_output |-> "ATS-optimized resume with keyword placement and metrics."]

refine_bullets_task(agent, rewritten_resume_text) ==
    LET truncated_text == Truncate(rewritten_resume_text, RefineResumeBudget)
    IN  [description |->
            [template |-> "Polish these bullets with action verbs and metrics:\n\n{0}\n\nAdd strong verbs and numbers. Be fast and direct.",
             args |-> <<truncated_text>>],
         agent |-> agent,
         expected_output |-> "Resume with enhanced bullet points and metrics."]

evaluate_ats_task(agent, final_resume_text, job_title, job_description) ==
    LET truncated_resume == Truncate(final_resume_text, EvaluateResumeBudget)
        truncated_jd == Truncate(job_description, EvaluateJdBudget)
    IN  [description |->
            [template |-> "Score this resume for {0}:\n\nJOB: {1}\n\nRESUME: {2}\n\nRate 1-5: keywords, structure, metrics, verbs, format. Return JSON with overall_score (0-100), breakdown, missing_keywords, quick_wins.",
             args |-> <<job_title, truncated_jd, truncated_resume>>],
         agent |-> agent,
         expected_output |-> "JSON evaluation with scores and recommendations."]

(***************************************************************************)
(* json.loads, as the evaluation parser uses it (app.py:87,                *)
(* streamlit_app.py:251 and 423).  A decoded value is [t, v]:              *)
(*   "str": v the characters; "num": v the digits of the integer;          *)
(*   "lit": v the literal's name; "arr": v the sequence of the items;      *)
(*   "obj": v the mapping from key (the characters) to value, a later      *)
(*          duplicate key replacing an earlier one.                        *)
(* The decoder covers the texts the model builds: structure, quotes,       *)
(* integers without sign, the literals true, false and null, whitespace    *)
(* and letters; such texts hold no backslash, sign, fraction or exponent.  *)
(***************************************************************************)
JsonWs == {" ", "\t", "\n", "\r"}
Digits == {"0", "1", "2", "3", "4", "5", "6", "7", "8", "9"}
\* Strict mode: a control character inside a string is an error.
ControlChars == {"\t", "\n", "\r"}

DecodeError == [ok |-> FALSE, val |-> [t |-> "none", v |-> <<>>], pos |-> 0]
Decoded(t, v, pos) == [ok |-> TRUE, val |-> [t |-> t, v |-> v], pos |-> pos]

EmptyDict == <<>>
DictPut(d, key, val) ==
    [k \in (DOMAIN d) \cup {key} |-> IF k = key THEN val ELSE d[k]]

\* The first index at or after i that holds no whitespace (Len(s) + 1 when none).
SkipWs(s, i) ==
    LET rest == {j \in i..Len(s) : s[j] \notin JsonWs}
    IN  IF rest = {} THEN Len(s) + 1 ELSE MinOf(rest)

At(s, i) == IF i >= 1 /\ i <= Len(s) THEN s[i] ELSE ""

StartsWith(s, i, word) ==
    /\ i + Len(word) - 1 <= Len(s)
    /\ \A k \in 1..Len(word) : s[i + k - 1] = word[k]

\* scanstring: i is the index after the opening double quote.
ScanString(s, i) ==
    LET closing == {j \in i..Len(s) : s[j] = "\""}
    IN  IF closing = {} THEN DecodeError
        ELSE LET e == MinOf(closing)
                 content == SubSeq(s, i, e - 1)
             IN  IF \E k \in 1..Len(content) : content[k] \in ControlChars \cup {"\\"}
                 THEN DecodeError
                 ELSE Decoded("str", content, e + 1)

\* The integer of NUMBER_RE: 0, or a digit 1-9 followed by digits.
ScanNumber(s, i) ==
    LET stop == {j \in i..Len(s) : s[j] \notin Digits}
        e == IF s[i] = "0" THEN i + 1
             ELSE IF stop = {} THEN Len(s) + 1 ELSE MinOf(stop)
    IN  Decoded("num", SubSeq(s, i, e - 1), e)

RECURSIVE ScanValue(_, _)
RECURSIVE ScanArrayItems(_, _, _)
RECURSIVE ScanObjectPairs(_, _, _)

\* JSONArray's loop: i is the index of the next item.
ScanArrayItems(s, i, items) ==
    LET item == ScanValue(s, i)
    IN  IF ~item.ok THEN DecodeError
        ELSE LET j == SkipWs(s, item.pos)
                 sofar == Append(items, item.val)
             IN  IF At(s, j) = "]" THEN Decoded("arr", sofar, j + 1)
                 ELSE IF At(s, j) = "," THEN ScanArrayItems(s, SkipWs(s, j + 1), sofar)
                 ELSE DecodeError

\* JSONObject's loop: i is the index where the next key's double quote must be.
ScanObjectPairs(s, i, pairs) ==
    IF At(s, i) # "\"" THEN DecodeError
    ELSE LET key == ScanString(s, i + 1)
         IN  IF ~key.ok THEN DecodeError
             ELSE LET c == SkipWs(s, key.pos)
                  IN  IF At(s, c) # ":" THEN DecodeError
                      ELSE LET value == ScanValue(s, SkipWs(s, c + 1))
                           IN  IF ~value.ok THEN DecodeError
                               ELSE LET j == SkipWs(s, value.pos)
                                        sofar == DictPut(pairs, key.val.v, value.val)
                                    IN  IF At(s, j) = "}" THEN Decoded("obj", sofar, j + 1)
                                        ELSE IF At(s, j) = ","
                                        THEN ScanObjectPairs(s, SkipWs(s, j + 1), sofar)
                                        ELSE DecodeError

\* scan_once
ScanValue(s, i) ==
    LET c == At(s, i)
    IN  IF c = "\"" THEN ScanString(s, i + 1)
        ELSE IF c = "{"
        THEN LET j == SkipWs(s, i + 1)
             IN  IF At(s, j) = "}" THEN Decoded("obj", EmptyDict, j + 1)
                 ELSE ScanObjectPairs(s, j, EmptyDict)
        ELSE IF c = "["
        THEN LET j == SkipWs(s, i + 1)
             IN  IF At(s, j) = "]" THEN Decoded("arr", <<>>, j + 1)
                 ELSE ScanArrayItems(s, j, <<>>)
        ELSE IF c \in Digits THEN ScanNumber(s, i)
        ELSE IF StartsWith(s, i, <<"n", "u", "l", "l">>) THEN Decoded("lit", <<"null">>, i + 4)
        ELSE IF StartsWith(s, i, <<"t", "r", "u", "e">>) THEN Decoded("lit", <<"true">>, i + 4)
        ELSE IF StartsWith(s, i, <<"f", "a", "l", "s", "e">>) THEN Decoded("lit", <<"false">>, i + 5)
        ELSE DecodeError

\* json.loads(s): one value, whitespace around it, nothing after it.
json_loads(s) ==
    LET r == ScanValue(s, SkipWs(s, 1))
    IN  IF r.ok /\ SkipWs(s, r.pos) = Len(s) + 1 THEN r ELSE DecodeError

(***************************************************************************)
(* The evaluation parser of the two front-ends.                            *)
(***************************************************************************)
\* The mutant: only the first single quote is replaced.
ReplaceFirstQuote(s) ==
    LET q == {i \in 1..Len(s) : s[i] = "'"}
    IN  [i \in 1..Len(s) |-> IF q # {} /\ i = MinOf(q) THEN "\"" ELSE s[i]]

\* s.replace("'", '"')
ReplaceQuotes(s) == [i \in 1..Len(s) |-> IF s[i] = "'" THEN "\"" ELSE s[i]]

RawKey == <<"r", "a", "w">>
PyStr(s) == [t |-> "str", v |-> s]
PyNone == [t |-> "lit", v |-> <<"None">>]

\* The mutant: the decode error is not caught and leaves the parser.
FlaskParseEvaluationUncaught(evaluation) ==
    LET r == json_loads(ReplaceQuotes(Strip(evaluation)))
    IN  [raised |-> ~r.ok, done |-> TRUE, parsed_eval |-> IF r.ok THEN r.val ELSE PyNone]

\* app.py:84-89: parsed_eval, the value under 'evaluation' in the success payload.
FlaskParseEvaluation(evaluation) ==
    LET eval_text == ReplaceQuotes(Strip(evaluation))
        r == json_loads(eval_text)
    IN  [raised |-> FALSE, done |-> TRUE,
         parsed_eval |-> IF r.ok THEN r.val
                         ELSE [t |-> "obj", v |-> DictPut(EmptyDict, RawKey, PyStr(evaluation))]]

\* streamlit_app.py:247-253 and 418-426: parsed, None when the decode raises.
StreamlitParseEvaluation(evaluation) ==
    LET text == Strip(evaluation)
        fixed == ReplaceQuotes(text)
        r == json_loads(fixed)
    IN  IF r.ok THEN r.val ELSE PyNone

\* bool(x) of a decoded value.
Truthy(x) ==
    IF x.t = "lit" THEN x.v = <<"true">>
    ELSE IF x.t = "num" THEN x.v # <<"0">>
    ELSE x.v # <<>>

OverallScoreKey == <<"o", "v", "e", "r", "a", "l", "l", "_", "s", "c", "o", "r", "e">>
QuickWinsKey == <<"q", "u", "i", "c", "k", "_", "w", "i", "n", "s">>
MissingKeywordsKey ==
    <<"m", "i", "s", "s", "i", "n", "g", "_", "k", "e", "y", "w", "o", "r", "d", "s">>

BreakdownKey == <<"b", "r", "e", "a", "k", "d", "o", "w", "n">>

IsBool(x) == x.t = "lit" /\ x.v \in {<<"true">>, <<"false">>}

\* The mutant: parsed['overall_score'] is read without the test for its presence.
ScoreViewRaisesOnAbsentScore(parsed) == OverallScoreKey \notin DOMAIN parsed.v

\* streamlit_app.py:256-285 (431-468): what rendering the record does with a field
\* of the wrong type.  score >= 80 needs a number; enumerate(quick_wins) needs an
\* iterable; ", ".join(keywords) needs a list of str.
ScoreViewRaises(parsed) ==
    LET d == parsed.v
    IN  \/ /\ OverallScoreKey \in DOMAIN d
           /\ ~(d[OverallScoreKey].t = "num" \/ IsBool(d[OverallScoreKey]))
        \/ /\ QuickWinsKey \in DOMAIN d
           /\ d[QuickWinsKey].t \in {"num", "lit"}
        \/ /\ MissingKeywordsKey \in DOMAIN d
           /\ d[MissingKeywordsKey].t = "arr"
           /\ \E i \in 1..Len(d[MissingKeywordsKey].v) : d[MissingKeywordsKey].v[i].t # "str"

\* streamlit_app.py:255 and 286-287 (429 and 470-473): the score tab shows the
\* structured record, or the evaluation text as it is.
StreamlitScoreView(evaluation) ==
    LET parsed == StreamlitParseEvaluation(evaluation)
    IN  IF Truthy(parsed) /\ parsed.t = "obj"
        THEN [raised |-> ScoreViewRaises(parsed), done |-> TRUE,
              view |-> "structured", parsed |-> parsed, text |-> NoText]
        ELSE [raised |-> FALSE, done |-> TRUE,
              view |-> "raw", parsed |-> PyNone, text |-> evaluation]

(***************************************************************************)
(* file_tools/file_loader.py: the text extractor.  The bytes of an upload  *)
(* are [kind, text]: what the bytes are ("pdf", "docx", "text", "bin", or  *)
(* "empty" for a stream already read to its end) and the text in them.     *)
(***************************************************************************)
UpperCase == <<"A", "B", "C", "D", "E", "F", "G", "H", "I", "J", "K", "L", "M",
               "N", "O", "P", "Q", "R", "S", "T", "U", "V", "W", "X", "Y", "Z">>
LowerCase == <<"a", "b", "c", "d", "e", "f", "g", "h", "i", "j", "k", "l", "m",
               "n", "o", "p", "q", "r", "s", "t", "u", "v", "w", "x", "y", "z">>

\* str.lower()
Lower(s) ==
    [i \in 1..Len(s) |->
        IF \E k \in 1..26 : UpperCase[k] = s[i]
        THEN LowerCase[CHOOSE k \in 1..26 : UpperCase[k] = s[i]]
        ELSE s[i]]

\* s.endswith(suffix)
EndsWith(s, suffix) ==
    /\ Len(s) >= Len(suffix)
    /\ SubSeq(s, Len(s) - Len(suffix) + 1, Len(s)) = suffix

EmptyBytes == [kind |-> "empty", text |-> NoText]

Extracted(ext, text) == [raised |-> FALSE, ext |-> ext, text |-> text]
ExtractRaises == [raised |-> TRUE, ext |-> "", text |-> NoText]

\* PdfReader(io.BytesIO(file_bytes)) raises on bytes that are no PDF (empty ones too).
extract_text_from_pdf(file_bytes) ==
    IF file_bytes.kind = "pdf" THEN Extracted("pdf", file_bytes.text) ELSE ExtractRaises

\* Document(f) raises on bytes that are no DOCX package (empty ones too).
extract_text_from_docx(file_bytes) ==
    IF file_bytes.kind = "docx" THEN Extracted("docx", file_bytes.text) ELSE ExtractRaises

\* file_bytes.decode("utf-8", errors="ignore"): never raises.  A PDF's bytes open
\* with "%PDF" and a DOCX package's with "PK", which decode as they are.
DecodeIgnoringErrors(file_bytes) ==
    IF file_bytes.kind = "pdf" THEN <<"%", "P", "D", "F">>
    ELSE IF file_bytes.kind = "docx" THEN <<"P", "K">>
    ELSE file_bytes.text

detect_and_extract(filename, file_bytes) ==
    LET low == Lower(filename)
    IN  IF EndsWith(low, <<".", "p", "d", "f">>) THEN extract_text_from_pdf(file_bytes)
        ELSE IF EndsWith(low, <<".", "d", "o", "c", "x">>) THEN extract_text_from_docx(file_bytes)
        ELSE Extracted("txt", DecodeIgnoringErrors(file_bytes))

(***************************************************************************)
(* app.py: allowed_file, and werkzeug's secure_filename as it acts on the   *)
(* names the model uploads.                                                *)
(***************************************************************************)
ALLOWED_EXTENSIONS == {<<"p", "d", "f">>, <<"d", "o", "c", "x">>, <<"t", "x", "t">>}

HasDot(filename) == \E i \in 1..Len(filename) : filename[i] = "."

\* filename.rsplit('.', 1)[1]
AfterLastDot(filename) ==
    LET dots == {i \in 1..Len(filename) : filename[i] = "."}
    IN  SubSeq(filename, MaxOf(dots) + 1, Len(filename))

allowed_file(filename) ==
    HasDot(filename) /\ Lower(AfterLastDot(filename)) \in ALLOWED_EXTENSIONS

SafeChars ==
    {UpperCase[k] : k \in 1..26} \cup {LowerCase[k] : k \in 1..26}
        \cup Digits \cup {"_", ".", "-"}

\* s.strip("._")
StripDotsUnderscores(s) ==
    LET keep == {i \in 1..Len(s) : s[i] \notin {".", "_"}}
    IN  IF keep = {} THEN NoText ELSE SubSeq(s, MinOf(keep), MaxOf(keep))

\* secure_filename: path separators become spaces, whitespace-separated parts are
\* joined with "_", characters outside [A-Za-z0-9_.-] are dropped, and dots and
\* underscores are stripped from both ends.
secure_filename(filename) ==
    LET spaced == [i \in 1..Len(filename) |->
                      IF filename[i] \in {"/", "\\"} THEN " " ELSE filename[i]]
        trimmed == Strip(spaced)
        joined == [i \in 1..Len(trimmed) |->
                      IF trimmed[i] \in Whitespace THEN "_" ELSE trimmed[i]]
        \* a run of whitespace gives one "_"
        single == SelectSeq([i \in 1..Len(joined) |->
                                IF joined[i] = "_" /\ trimmed[i] \in Whitespace
                                   /\ i > 1 /\ trimmed[i - 1] \in Whitespace
                                THEN "" ELSE joined[i]],
                            LAMBDA c : c # "")
        ascii == SelectSeq(single, LAMBDA c : c \in SafeChars)
    IN  StripDotsUnderscores(ascii)

(***************************************************************************)
(* The submissions the model makes.                                        *)
(***************************************************************************)
\* What a stage's generation may return: whitespace only, a text with whitespace
\* around it, a structured record.
GenTexts ==
    {<<"\n">>, <<" ", "a", "\n">>, <<"{", "\"", "a", "\"", ":", "7", "}">>}

\* Where OPENAI_API_KEY is when the process starts: nowhere, in the .env file only
\* ("dotenv"), or in os.environ ("set").
Configs == {"absent", "dotenv", "set"}

FileTexts == {NoText, <<" ", "\n">>, <<"j", "d">>}
FileKinds == {"pdf", "docx", "text", "bin"}

FlaskNames ==
    {NoText,
     <<"c", "v", ".", "p", "d", "f">>, <<"C", "V", ".", "D", "O", "C", "X">>,
     <<"c", "v", ".", "t", "x", "t">>, <<"c", "v", ".", "e", "x", "e">>,
     <<"c", "v">>, <<".", "p", "d", "f">>}

\* st.file_uploader(type=["pdf", "docx", "txt"]) takes no other extension
\* (streamlit_app.py:126-130).
StreamlitNames ==
    {<<"c", "v", ".", "p", "d", "f">>, <<"C", "V", ".", "D", "O", "C", "X">>,
     <<"c", "v", ".", "t", "x", "t">>}

NoUpload == [present |-> FALSE, name |-> NoText, kind |-> "empty", text |-> NoText]

Uploads(names) ==
    {NoUpload} \cup
    {[present |-> TRUE, name |-> n, kind |-> k, text |-> t] :
        n \in names, k \in FileKinds, t \in FileTexts}

TitleInputs == {NoText, <<" ">>, <<" ", "d", "e", "v">>}
DescriptionInputs == {NoText, <<" ">>, <<"p", "y", " ">>}

(***************************************************************************)
(* One submission: a POST to /process of app.py ("flask"), or one click of *)
(* the run button of streamlit_app.py ("streamlit"), whose script holds    *)
(* the processing block twice (lines 160-287, then lines 289-473).         *)
(***************************************************************************)
NoRun == [raw_resume_text |-> NoText, job_title |-> NoText, job_description |-> NoText,
          cleaned |-> NoText, rewritten |-> NoText, final_resume |-> NoText,
          evaluation |-> NoText]

\* One thing the front-end gives back: Flask's JSON response, or one element the
\* Streamlit script puts on the page.
Item(kind, status, error, payload, eval) ==
    [kind |-> kind, pass |-> pass, status |-> status, error |-> error,
     payload |-> payload, eval |-> eval]

\* The mutant: the error payload carries the texts computed so far.
FlaskErrorWithArtifacts(status, error) ==
    Item("json", status, error,
         <<run.cleaned, run.rewritten, run.final_resume, run.evaluation>>, NotYet)

\* jsonify({'error': error}), status
FlaskError(status, error) == Item("json", status, error, <<>>, NotYet)
StError(error) == Item("st.error", 0, error, <<>>, NotYet)
\* An exception no handler of the script catches: Streamlit shows it and the run ends.
StException == Item("exception", 0, "uncaught exception", <<>>, NotYet)

\* Where the Streamlit script goes on after its block `pass` is through.
AfterBlock == IF pass = 1 THEN "validate" ELSE "done"
NextBlock == IF pass = 1 THEN 2 ELSE pass

StartupError ==
    Item("ValueError", 0, "OPENAI_API_KEY environment variable is not set", <<>>, NotYet)

\* The mutant: the module is imported without looking for the key.
StartupUnchecked ==
    /\ pc = "import"
    /\ pc' = "validate"
    /\ UNCHANGED <<config, gen, frontend, upload, form, pass, loc, stream_read, extracted,
                   run, events, out, truncVars, evalVars, concVars, pdfVars>>

\* "OPENAI_API_KEY" in os.environ, when agents.py:13 asks: the front-end imports crew
\* (app.py:14, streamlit_app.py:12) before it calls load_dotenv() (app.py:19,
\* streamlit_app.py:17), so what the .env file holds is not in os.environ yet.
KeyInEnviron == config = "set"

\* agents.py:13-14, run when app.py:14 (streamlit_app.py:12) imports crew, before
\* the front-end handles anything: without the key the import raises.
Startup ==
    /\ pc = "import"
    /\ IF ~KeyInEnviron
       THEN /\ out' = Append(out, StartupError)
            /\ pc' = "failed"
       ELSE /\ pc' = "validate"
            /\ UNCHANGED out
    /\ UNCHANGED <<config, gen, frontend, upload, form, pass, loc, stream_read, extracted,
                   run, events, truncVars, evalVars, concVars, pdfVars>>

\* app.py:49-64
FlaskValidate ==
    /\ frontend = "flask" /\ pc = "validate"
    /\ LET job_title == Strip(form.job_title)
           job_description == Strip(form.job_description)
           reject(error) ==
               /\ out' = Append(out, FlaskError(400, error))
               /\ pc' = "done"
               /\ UNCHANGED loc
       IN  IF ~upload.present THEN reject("No resume file uploaded")
           ELSE IF upload.name = NoText THEN reject("No file selected")
           ELSE IF job_title = NoText \/ job_description = NoText
           THEN reject("Job title and description are required")
           ELSE IF ~allowed_file(upload.name)
           THEN reject("Invalid file type. Use PDF, DOCX, or TXT")
           ELSE /\ loc' = [loc EXCEPT !.job_title = job_title,
                                      !.job_description = job_description]
                /\ pc' = "extract"
                /\ UNCHANGED out
    /\ UNCHANGED <<config, gen, frontend, upload, form, pass, stream_read, extracted, run, events,
                   truncVars, evalVars, concVars, pdfVars>>

\* streamlit_app.py:160-164 (289-293)
StreamlitValidate ==
    /\ frontend = "streamlit" /\ pc = "validate"
    /\ IF ~upload.present
       THEN /\ out' = Append(out, StError("Please upload a resume file"))
            /\ pc' = AfterBlock /\ pass' = NextBlock
       ELSE IF form.job_title = NoText \/ Blank(form.job_description)
       THEN /\ out' = Append(out, StError("Please provide job title and description"))
            /\ pc' = AfterBlock /\ pass' = NextBlock
       ELSE /\ pc' = "extract"
            /\ UNCHANGED <<out, pass>>
    /\ UNCHANGED <<config, gen, frontend, upload, form, loc, stream_read, extracted, run, events,
                   truncVars, evalVars, concVars, pdfVars>>

\* file.read() / up.read(): the bytes from the stream's position to its end.
ReadUpload ==
    IF stream_read THEN EmptyBytes ELSE [kind |-> upload.kind, text |-> upload.text]

\* The mutant: the check is `not raw_text`, which lets whitespace-only text through.
RejectsOnlyEmptyText(raw_text) == raw_text = NoText

\* app.py:73, streamlit_app.py:168 (300): if not raw_text.strip()
RejectsExtractedText(raw_text) == Blank(raw_text)

\* run_pipeline(raw_resume_text=..., job_title=..., job_description=...) is entered.
Invoke(raw_text, job_title, job_description) ==
    /\ run' = [NoRun EXCEPT !.raw_resume_text = raw_text,
                            !.job_title = job_title,
                            !.job_description = job_description]
    /\ pc' = "parse_kickoff"

\* app.py:66-81, up to the call of run_pipeline
FlaskExtract ==
    /\ frontend = "flask" /\ pc = "extract"
    /\ LET filename == secure_filename(upload.name)
           file_bytes == ReadUpload
           got == detect_and_extract(filename, file_bytes)
       IN  /\ stream_read' = TRUE
           /\ extracted' = Append(extracted, got)
           /\ IF got.raised
              THEN \* app.py:100-101
                   /\ out' = Append(out, FlaskError(500, "str(e)"))
                   /\ pc' = "done"
                   /\ UNCHANGED <<loc, run>>
              ELSE /\ loc' = [loc EXCEPT !.raw_text = got.text]
                   /\ IF RejectsExtractedText(got.text)
                      THEN /\ out' = Append(out, FlaskError(400, "Could not extract text from file"))
                           /\ pc' = "done"
                           /\ UNCHANGED run
                      ELSE /\ Invoke(got.text, loc.job_title, loc.job_description)
                           /\ UNCHANGED out
    /\ UNCHANGED <<config, gen, frontend, upload, form, pass, events, truncVars, evalVars, concVars, pdfVars>>

\* streamlit_app.py:165-182 (296-321), up to the call of run_pipeline
StreamlitExtract ==
    /\ frontend = "streamlit" /\ pc = "extract"
    /\ LET got == detect_and_extract(upload.name, ReadUpload)
       IN  /\ stream_read' = TRUE
           /\ extracted' = Append(extracted, got)
           /\ IF got.raised
              THEN /\ out' = Append(out, StException)
                   /\ pc' = "done"
                   /\ UNCHANGED <<loc, run, pass>>
              ELSE /\ loc' = [loc EXCEPT !.raw_text = got.text]
                   /\ IF RejectsExtractedText(got.text)
                      THEN /\ out' = Append(out, StError("Could not extract text from file"))
                           /\ pc' = AfterBlock /\ pass' = NextBlock
                           /\ UNCHANGED run
                      ELSE /\ Invoke(got.text, Strip(form.job_title), Strip(form.job_description))
                           /\ UNCHANGED <<out, pass>>
    /\ UNCHANGED <<config, gen, frontend, upload, form, events, truncVars, evalVars, concVars, pdfVars>>

(***************************************************************************)
(* crew.py: run_pipeline.  Each Crew.kickoff() is a blocking call to the   *)
(* generation capability: it returns a text, or raises (a provider error,  *)
(* a timeout).  `events` logs every call, return and raise.                *)
(***************************************************************************)
Event(ev, stage, task, result) ==
    [ev |-> ev, pass |-> pass, stage |-> stage, task |-> task, result |-> result]

\* The crew of one stage is built around `task` and kicked off.
Kickoff(at, stage, task, wait) ==
    /\ pc = at
    /\ events' = Append(events, Event("call", stage, task, NoText))
    /\ pc' = wait
    /\ UNCHANGED <<config, gen, frontend, upload, form, pass, loc, stream_read, extracted, run, out,
                   truncVars, evalVars, concVars, pdfVars>>

\* The mutant: the result is kept cut to the budget of the refine prompt.
ReturnedTruncated(at, stage, field, result, next) ==
    /\ pc = at
    /\ events' = Append(events, Event("return", stage, NoTask, result))
    /\ run' = [run EXCEPT ![field] = Truncate(Strip(result), RefineResumeBudget)]
    /\ pc' = next
    /\ UNCHANGED <<config, gen, frontend, upload, form, pass, loc, stream_read, extracted,
                   out, truncVars, evalVars, concVars, pdfVars>>

\* kickoff() returns `result`; str(result).strip() is kept under `field`.
Returned(at, stage, field, result, next) ==
    /\ pc = at
    /\ events' = Append(events, Event("return", stage, NoTask, result))
    /\ run' = [run EXCEPT ![field] = Strip(result)]
    /\ pc' = next
    /\ UNCHANGED <<config, gen, frontend, upload, form, pass, loc, stream_read, extracted, out,
                   truncVars, evalVars, concVars, pdfVars>>

\* crew.py:92-109
ParseKickoff ==
    Kickoff("parse_kickoff", "parse",
            parse_resume_task(build_parser_agent, run.raw_resume_text), "parse_wait")

\* crew.py:109-110
ParseReturns ==
    \E result \in gen :
        Returned("parse_wait", "parse", "cleaned", result, "rewrite_kickoff")

\* crew.py:114-123
RewriteKickoff ==
    Kickoff("rewrite_kickoff", "rewrite",
            rewrite_for_ats_task(build_ats_writer_agent, run.cleaned,
                                 run.job_title, run.job_description),
            "rewrite_wait")

\* The mutant: the run goes from stage 2 straight to stage 4.
RewriteReturnsSkippingRefine ==
    \E result \in gen :
        Returned("rewrite_wait", "rewrite", "rewritten", result, "evaluate_kickoff")

\* crew.py:123-124
RewriteReturns ==
    \E result \in gen :
        Returned("rewrite_wait", "rewrite", "rewritten", result, "refine_kickoff")

\* build_crew's placeholder for the stage-3 input (crew.py:51).
RefinePlaceholder ==
    <<"{", "{", "e", "w", "r", "i", "t", "e", "_", "f", "r", "_", "a", "t", "s", "_",
      "t", "a", "s", "k", "}", "}">>

\* The mutant: stage 3 is given the placeholder of the legacy build_crew.
RefineKickoffWithPlaceholder ==
    Kickoff("refine_kickoff", "refine",
            refine_bullets_task(build_refiner_agent, RefinePlaceholder), "refine_wait")

\* crew.py:128-137
RefineKickoff ==
    Kickoff("refine_kickoff", "refine",
            refine_bullets_task(build_refiner_agent, run.rewritten), "refine_wait")

\* crew.py:137-138
RefineReturns ==
    \E result \in gen :
        Returned("refine_wait", "refine", "final_resume", result, "evaluate_kickoff")

\* crew.py:142-151
EvaluateKickoff ==
    Kickoff("evaluate_kickoff", "evaluate",
            evaluate_ats_task(build_evaluator_agent, run.final_resume,
                              run.job_title, run.job_description),
            "evaluate_wait")

\* crew.py:151-155
EvaluateReturns ==
    \E result \in gen :
        Returned("evaluate_wait", "evaluate", "evaluation", result, "returned")

Waiting == {"parse_wait", "rewrite_wait", "refine_wait", "evaluate_wait"}

StageWaited ==
    CASE pc = "parse_wait" -> "parse"
      [] pc = "rewrite_wait" -> "rewrite"
      [] pc = "refine_wait" -> "refine"
      [] pc = "evaluate_wait" -> "evaluate"
      [] OTHER -> ""

\* The mutant: a failed stage's text is taken to be empty and the run goes on.
KickoffRaisesAndRunGoesOn ==
    /\ pc \in Waiting
    /\ events' = Append(events, Event("raise", StageWaited, NoTask, NoText))
    /\ pc' = CASE pc = "parse_wait" -> "rewrite_kickoff"
               [] pc = "rewrite_wait" -> "refine_kickoff"
               [] pc = "refine_wait" -> "evaluate_kickoff"
               [] OTHER -> "returned"
    /\ UNCHANGED <<config, gen, frontend, upload, form, pass, loc, stream_read, extracted, run, out,
                   truncVars, evalVars, concVars, pdfVars>>

\* kickoff() raises: run_pipeline has no handler, so the exception leaves it and
\* reaches the front-end's (app.py:100-101; streamlit_app.py:192-194, 332-334, where
\* st.stop() ends the script).
KickoffRaises ==
    /\ pc \in Waiting
    /\ events' = Append(events, Event("raise", StageWaited, NoTask, NoText))
    /\ out' = Append(out, IF frontend = "flask" THEN FlaskError(500, "str(e)")
                          ELSE StError("Error: str(e)"))
    /\ pc' = "done"
    /\ UNCHANGED <<config, gen, frontend, upload, form, pass, loc, stream_read, extracted, run,
                   truncVars, evalVars, concVars, pdfVars>>

Artifacts == <<run.cleaned, run.rewritten, run.final_resume, run.evaluation>>

\* app.py:83-98 (and 100-101 should the parse raise)
FlaskRespond ==
    /\ frontend = "flask" /\ pc = "returned"
    /\ LET parsed == FlaskParseEvaluation(run.evaluation)
       IN  out' = Append(out, IF parsed.raised THEN FlaskError(500, "str(e)")
                              ELSE Item("json", 200, "", Artifacts, parsed))
    /\ pc' = "done"
    /\ UNCHANGED <<config, gen, frontend, upload, form, pass, loc, stream_read, extracted, run, events,
                   truncVars, evalVars, concVars, pdfVars>>

\* streamlit_app.py:184-190 and 196-287 (323-330 and 336-473): the success message,
\* then the four tabs; an exception in the score tab ends the script.
StreamlitShow ==
    /\ frontend = "streamlit" /\ pc = "returned"
    /\ LET view == StreamlitScoreView(run.evaluation)
           shown == out \o <<Item("st.success", 0, "", <<>>, NotYet),
                            Item("tabs", 0, "", Artifacts, view)>>
       IN  IF view.raised
           THEN /\ out' = Append(shown, StException)
                /\ pc' = "done"
                /\ UNCHANGED pass
           ELSE /\ out' = shown
                /\ pc' = AfterBlock /\ pass' = NextBlock
    /\ UNCHANGED <<config, gen, frontend, upload, form, loc, stream_read, extracted, run, events,
                   truncVars, evalVars, concVars, pdfVars>>

TruncIdle == t_pc = "off" /\ t_text = NoText /\ t_jd = NoText /\ t_task = NoTask
EvalIdle == e_text = NoText /\ e_flask = NotYet /\ e_view = NotYet

ConcIdle == c_runs = <<>>
PdfIdle == p_pc = "off" /\ p_text = NoText /\ p_elements = <<>>

NoLoc == [job_title |-> NoText, job_description |-> NoText, raw_text |-> NoText]

MainIdle ==
    /\ config = "set" /\ gen = {}
    /\ frontend = "off" /\ upload = NoUpload
    /\ form = [job_title |-> NoText, job_description |-> NoText]
    /\ pc = "off" /\ pass = 1 /\ loc = NoLoc /\ stream_read = FALSE
    /\ extracted = <<>> /\ run = NoRun /\ events = <<>> /\ out = <<>>

Init ==
    /\ config \in Configs /\ gen = GenTexts
    /\ frontend \in {"flask", "streamlit"}
    /\ upload \in Uploads(IF frontend = "flask" THEN FlaskNames ELSE StreamlitNames)
    /\ form \in [job_title : TitleInputs, job_description : DescriptionInputs]
    /\ pc = "import" /\ pass = 1 /\ loc = NoLoc /\ stream_read = FALSE
    /\ extracted = <<>> /\ run = NoRun /\ events = <<>> /\ out = <<>>
    /\ TruncIdle /\ EvalIdle /\ ConcIdle /\ PdfIdle

Next ==
    \/ Startup
    \/ FlaskValidate \/ StreamlitValidate
    \/ FlaskExtract \/ StreamlitExtract
    \/ ParseKickoff \/ ParseReturns
    \/ RewriteKickoff \/ RewriteReturns
    \/ RefineKickoff \/ RefineReturns
    \/ EvaluateKickoff \/ EvaluateReturns
    \/ KickoffRaises
    \/ FlaskRespond \/ StreamlitShow

Spec == Init /\ [][Next]_vars

(***************************************************************************)
(* The prompt-builder harness: every builder applied to texts whose        *)
(* lengths lie around every budget.                                        *)
(***************************************************************************)
Budgets == {ParseResumeBudget, RewriteResumeBudget, RewriteJdBudget,
            RefineResumeBudget, EvaluateResumeBudget, EvaluateJdBudget}

TruncLengths ==
    {0, LongLen} \cup UNION {{b + d : d \in (0 - Margin)..Margin} : b \in Budgets}

\* Two fillings: a cycle of letters, and a text made of the marker's own character.
Filling == <<<<"a", "b", " ">>, <<".", ".", ".">>>>

TextOfLen(n, f) == [i \in 1..n |-> Filling[f][(i % 3) + 1]]

TruncTexts == {TextOfLen(n, f) : n \in TruncLengths, f \in 1..Len(Filling)}

\* One short and one marker-free job title: the title is interpolated as given.
TruncTitle == <<"d", "e", "v">>
\* The job titles the builders are given: the short one, and one of LongLen characters.
TruncTitles == {TruncTitle, TextOfLen(LongLen, 1)}

TruncInit ==
    /\ t_pc = "in"
    /\ t_text \in TruncTexts
    /\ t_jd \in {TextOfLen(n, 1) : n \in TruncLengths}
    /\ t_task = NoTask
    /\ EvalIdle /\ MainIdle /\ ConcIdle /\ PdfIdle

BuildParse ==
    /\ t_pc = "in"
    /\ t_task' = parse_resume_task(build_parser_agent, t_text)
    /\ t_pc' = "parse"
    /\ UNCHANGED <<t_text, t_jd, evalVars, mainVars, concVars, pdfVars>>

BuildRewrite ==
    /\ t_pc = "in"
    /\ \E job_title \in TruncTitles :
          t_task' = rewrite_for_ats_task(build_ats_writer_agent, t_text, job_title, t_jd)
    /\ t_pc' = "rewrite"
    /\ UNCHANGED <<t_text, t_jd, evalVars, mainVars, concVars, pdfVars>>

BuildRefine ==
    /\ t_pc = "in"
    /\ t_task' = refine_bullets_task(build_refiner_agent, t_text)
    /\ t_pc' = "refine"
    /\ UNCHANGED <<t_text, t_jd, evalVars, mainVars, concVars, pdfVars>>

BuildEvaluate ==
    /\ t_pc = "in"
    /\ \E job_title \in TruncTitles :
          t_task' = evaluate_ats_task(build_evaluator_agent, t_text, job_title, t_jd)
    /\ t_pc' = "evaluate"
    /\ UNCHANGED <<t_text, t_jd, evalVars, mainVars, concVars, pdfVars>>

TruncNext == BuildParse \/ BuildRewrite \/ BuildRefine \/ BuildEvaluate

SpecTrunc == TruncInit /\ [][TruncNext]_vars

(***************************************************************************)
(* The parser harness: both front-ends' evaluation parsers applied to      *)
(* every short text over the characters of structured text, and to the     *)
(* spec's scenario texts.                                                  *)
(***************************************************************************)
EvalAlphabet == {"{", "}", "[", "]", "\"", "'", "a", "7", ",", ":", " "}

Scenario3Single ==
    <<"{", "'", "o", "v", "e", "r", "a", "l", "l", "_", "s", "c", "o", "r", "e", "'",
    ":", " ", "7", "2", ",", " ", "'", "m", "i", "s", "s", "i", "n", "g", "_", "k", "e",
    "y", "w", "o", "r", "d", "s", "'", ":", " ", "[", "'", "P", "y", "t", "h", "o", "n",
    "'", ",", "'", "S", "Q", "L", "'", "]", ",", " ", "'", "q", "u", "i", "c", "k", "_",
    "w", "i", "n", "s", "'", ":", " ", "[", "'", "A", "d", "d", " ", "m", "e", "t", "r",
    "i", "c", "s", "'", "]", "}">>

Scenario3Double ==
    <<"{", "\"", "o", "v", "e", "r", "a", "l", "l", "_", "s", "c", "o", "r", "e", "\"",
    ":", " ", "7", "2", ",", " ", "\"", "m", "i", "s", "s", "i", "n", "g", "_", "k",
    "e", "y", "w", "o", "r", "d", "s", "\"", ":", " ", "[", "\"", "P", "y", "t", "h",
    "o", "n", "\"", ",", "\"", "S", "Q", "L", "\"", "]", ",", " ", "\"", "q", "u", "i",
    "c", "k", "_", "w", "i", "n", "s", "\"", ":", " ", "[", "\"", "A", "d", "d", " ",
    "m", "e", "t", "r", "i", "c", "s", "\"", "]", "}">>

ApostropheInValue ==
    <<"{", "\"", "q", "u", "i", "c", "k", "_", "w", "i", "n", "s", "\"", ":", " ", "[",
    "\"", "D", "o", "n", "'", "t", " ", "u", "s", "e", " ", "t", "a", "b", "l", "e",
    "s", "\"", "]", "}">>

ProseEvaluation ==
    <<"S", "c", "o", "r", "e", ":", " ", "7", "2", " ", "o", "f", " ", "1", "0", "0">>

\* A record whose overall_score is a string.
ScoreAsString ==
    <<"{", "\"", "o", "v", "e", "r", "a", "l", "l", "_", "s", "c", "o", "r", "e",
      "\"", ":", " ", "\"", "7", "2", "\"", "}">>

ScenarioTexts ==
    {Scenario3Single, Scenario3Double, ApostropheInValue, ProseEvaluation, ScoreAsString}

\* The fields of an evaluation record, as structured text, and a field that is none
\* of the four.
OverallField ==
    <<"\"", "o", "v", "e", "r", "a", "l", "l", "_", "s", "c", "o", "r", "e", "\"",
      ":", " ", "7", "2">>
BreakdownField ==
    <<"\"", "b", "r", "e", "a", "k", "d", "o", "w", "n", "\"", ":", " ", "{", "\"",
      "a", "\"", ":", " ", "7", "}">>
MissingField ==
    <<"\"", "m", "i", "s", "s", "i", "n", "g", "_", "k", "e", "y", "w", "o", "r",
      "d", "s", "\"", ":", " ", "[", "\"", "a", "\"", "]">>
QuickField ==
    <<"\"", "q", "u", "i", "c", "k", "_", "w", "i", "n", "s", "\"", ":", " ", "[",
      "\"", "a", "\"", "]">>
OtherField ==
    <<"\"", "a", "\"", ":", " ", "7">>
RecordFields == <<OverallField, BreakdownField, MissingField, QuickField>>

RECURSIVE JoinFields(_, _)
\* The fields with numbers in S, in order, each after ", ".
JoinFields(S, k) ==
    IF k > Len(RecordFields) THEN NoText
    ELSE (IF k \in S THEN <<",", " ">> \o RecordFields[k] ELSE NoText) \o JoinFields(S, k + 1)

\* The record with OtherField and exactly the fields with numbers in S.
RecordText(S) == <<"{">> \o OtherField \o JoinFields(S, 1) \o <<"}">>

RecordTexts == {RecordText(S) : S \in SUBSET (1..Len(RecordFields))}

EvalTexts ==
    ScenarioTexts \cup RecordTexts \cup UNION {[1..n -> EvalAlphabet] : n \in 0..MaxEvalLen}

EvalInit ==
    /\ e_text \in EvalTexts
    /\ e_flask = NotYet
    /\ e_view = NotYet
    /\ TruncIdle /\ MainIdle /\ ConcIdle /\ PdfIdle

\* app.py:83-98: the parse, then the success payload.
FlaskEvaluation ==
    /\ ~e_flask.done
    /\ e_flask' = FlaskParseEvaluation(e_text)
    /\ UNCHANGED <<e_text, e_view, truncVars, mainVars, concVars, pdfVars>>

\* streamlit_app.py:243-287 (412-473): the score tab.
StreamlitEvaluation ==
    /\ ~e_view.done
    /\ e_view' = StreamlitScoreView(e_text)
    /\ UNCHANGED <<e_text, e_flask, truncVars, mainVars, concVars, pdfVars>>

EvalNext == FlaskEvaluation \/ StreamlitEvaluation

SpecEval == EvalInit /\ [][EvalNext]_vars

(***************************************************************************)
(* C3: truncation at the six truncation points.                            *)
(***************************************************************************)
\* `embedded` is `s` itself when len(s) <= budget, and otherwise exactly the first
\* `budget` characters of `s` followed by the three-character marker.
EmbeddedAsClaimed(s, embedded, budget) ==
    IF Len(s) > budget
    THEN /\ Len(embedded) = budget + 3
         /\ \A i \in 1..budget : embedded[i] = s[i]
         /\ \A i \in (budget + 1)..(budget + 3) : embedded[i] = "."
    ELSE embedded = s

\* C3: at each of the six truncation points (stage 1 resume 1500; stage 2 resume 1200
\* and job description 300; stage 3 resume 1000; stage 4 resume 800 and job
\* description 200) the copy embedded in the prompt is the first `budget` characters
\* plus the marker when the input is longer than the budget, and the input itself,
\* with no marker, when its length is at most the budget (the budget included).
C3_TruncationAtEveryPoint ==
    LET a == t_task.description.args
    IN  /\ t_pc = "parse" => EmbeddedAsClaimed(t_text, a[1], 1500)
        /\ t_pc = "rewrite" =>
              /\ EmbeddedAsClaimed(t_text, a[3], 1200)
              /\ EmbeddedAsClaimed(t_jd, a[2], 300)
        /\ t_pc = "refine" => EmbeddedAsClaimed(t_text, a[1], 1000)
        /\ t_pc = "evaluate" =>
              /\ EmbeddedAsClaimed(t_text, a[3], 800)
              /\ EmbeddedAsClaimed(t_jd, a[2], 200)

\* A stage-4 prompt built from a resume of exactly 800 characters (embedded whole)
\* and a job description of 201 characters (cut to 200 plus the marker).
C3_Witness ==
    /\ t_pc = "evaluate"
    /\ Len(t_text) = 800
    /\ t_task.description.args[3] = t_text
    /\ Len(t_jd) = 201
    /\ Len(t_task.description.args[2]) = 203

(***************************************************************************)
(* C6, C7, C8: the evaluation parser.                                      *)
(***************************************************************************)
\* The evaluation text is valid structured text as returned.
DirectlyDecodable(text) == json_loads(Strip(text)).ok
DirectDecode(text) == json_loads(Strip(text)).val

\* C6: the parser tries the direct decode of the trimmed text first, so every
\* evaluation text that is valid structured text as returned yields the structured
\* record of its direct decode: under 'evaluation' in the Flask payload, and, when
\* that record is a non-empty mapping, as the record the Streamlit score tab shows.
C6_ValidTextYieldsItsDirectDecode ==
    DirectlyDecodable(e_text) =>
        /\ e_flask.done => e_flask.parsed_eval = DirectDecode(e_text)
        /\ (e_view.done /\ DirectDecode(e_text).t = "obj" /\ Truthy(DirectDecode(e_text))) =>
              /\ e_view.view = "structured"
              /\ e_view.parsed = DirectDecode(e_text)

\* E with single quotes substituted for its double quotes.
SingleQuoted(s) == [i \in 1..Len(s) |-> IF s[i] = "\"" THEN "'" ELSE s[i]]

HasSingleQuote(s) == \E i \in 1..Len(s) : s[i] = "'"

\* What each front-end's parser makes of the single-quoted form of the text.
SingleQuotedRoundTrips(text) ==
    /\ FlaskParseEvaluation(SingleQuoted(text)).parsed_eval = DirectDecode(text)
    /\ StreamlitParseEvaluation(SingleQuoted(text)) = DirectDecode(text)

\* C7 as stated: for every valid double-quoted evaluation E, parsing E with single
\* quotes substituted for its double quotes yields the record that parsing E yields.
C7_RoundTripForEveryValidText ==
    (e_flask.done /\ DirectlyDecodable(e_text)) =>
        /\ e_flask.parsed_eval = DirectDecode(e_text)
        /\ SingleQuotedRoundTrips(e_text)

\* C7 amended: the same, for every valid double-quoted evaluation E that holds no
\* single-quote character (no apostrophe inside a string value).
C7_RoundTripWithoutApostrophes ==
    (e_flask.done /\ DirectlyDecodable(e_text) /\ ~HasSingleQuote(e_text)) =>
        /\ e_flask.parsed_eval = DirectDecode(e_text)
        /\ SingleQuotedRoundTrips(e_text)

PyNum(digits) == [t |-> "num", v |-> digits]
PyList(items) == [t |-> "arr", v |-> items]

\* Scenario 3: the single-quoted text parses to the record of the double-quoted one,
\* with overall_score 72 and missing_keywords ["Python", "SQL"].
C7_Witness ==
    /\ e_text = Scenario3Double
    /\ e_flask.done
    /\ SingleQuoted(e_text) = Scenario3Single
    /\ FlaskParseEvaluation(Scenario3Single).parsed_eval = e_flask.parsed_eval
    /\ e_flask.parsed_eval.v[OverallScoreKey] = PyNum(<<"7", "2">>)
    /\ e_flask.parsed_eval.v[MissingKeywordsKey] =
          PyList(<<PyStr(<<"P", "y", "t", "h", "o", "n">>), PyStr(<<"S", "Q", "L">>)>>)

\* The text decodes neither directly nor after the single-quote substitution.
Undecodable(text) ==
    /\ ~json_loads(Strip(text)).ok
    /\ ~json_loads(ReplaceQuotes(Strip(text))).ok

\* C8: for every evaluation string that decodes neither directly nor after the
\* substitution, neither front-end's parser raises, Flask's payload holds the record
\* {'raw': evaluation} with the original string unchanged, and the Streamlit score
\* tab shows the original string as raw text.
C8_UndecodableFallsBackToRaw ==
    Undecodable(e_text) =>
        /\ e_flask.done =>
              /\ ~e_flask.raised
              /\ e_flask.parsed_eval.t = "obj"
              /\ DOMAIN e_flask.parsed_eval.v = {RawKey}
              /\ e_flask.parsed_eval.v[RawKey] = PyStr(e_text)
        /\ e_view.done =>
              /\ ~e_view.raised
              /\ e_view.view = "raw"
              /\ e_view.text = e_text

\* Freeform prose went through both parsers and came back as it was.
C8_Witness ==
    /\ e_text = ProseEvaluation
    /\ Undecodable(e_text)
    /\ e_flask.done /\ e_flask.parsed_eval.v[RawKey].v = ProseEvaluation
    /\ e_view.done /\ e_view.view = "raw" /\ e_view.text = ProseEvaluation

(***************************************************************************)
(* Claims about run_pipeline and the two front-ends (specification Spec).  *)
(***************************************************************************)
StageOrder == <<"parse", "rewrite", "refine", "evaluate">>

\* The events of the run_pipeline run that processing block p started.
EventsOf(p) == SelectSeq(events, LAMBDA e : e.pass = p)
Passes == {1, 2}

CallsOf(es, stage) == {i \in 1..Len(es) : es[i].ev = "call" /\ es[i].stage = stage}
Raised(es) == \E i \in 1..Len(es) : es[i].ev = "raise"

\* run_pipeline was entered.
Invoked == run # NoRun \/ events # <<>>
\* run_pipeline returned its four texts, or the front-end has given them back.
ResultReturned(p) ==
    \/ pc = "returned" /\ pass = p
    \/ \E i \in 1..Len(out) : out[i].pass = p /\ out[i].payload # <<>>

\* The k-th event pair belongs to stage k: a call, then its return or raise; a call
\* other than the first follows the return of the stage before it.
InFixedOrder(es) ==
    /\ Len(es) <= 2 * Len(StageOrder)
    /\ \A i \in 1..Len(es) :
          /\ es[i].stage = StageOrder[(i + 1) \div 2]
          /\ i % 2 = 1 => es[i].ev = "call" /\ (i > 1 => es[i - 1].ev = "return")
          /\ i % 2 = 0 => es[i].ev \in {"return", "raise"}

\* C1: in every run the generation calls happen in the order parse, rewrite,
\* refine, evaluate, each call starting only after the call before it returned, and
\* a run that returns a result made exactly one call, which returned, per stage.
C1_FixedOrderOneCallEach ==
    \A p \in Passes :
        LET es == EventsOf(p)
        IN  /\ InFixedOrder(es)
            /\ ResultReturned(p) =>
                  /\ Len(es) = 2 * Len(StageOrder)
                  /\ ~Raised(es)
                  /\ \A k \in 1..Len(StageOrder) :
                        Cardinality(CallsOf(es, StageOrder[k])) = 1

C1_Witness ==
    /\ pc = "returned"
    /\ Len(EventsOf(1)) = 8
    /\ events[7].stage = "evaluate" /\ events[8].ev = "return"

\* What stage k has to be given: the stripped text the call before it returned (the
\* text the front-end extracted, for stage 1) and the run's job fields.
UpstreamOf(es, i) == IF i = 1 THEN run.raw_resume_text ELSE Strip(es[i - 1].result)

TaskAsClaimed(es, i) ==
    CASE es[i].stage = "parse" ->
             parse_resume_task(build_parser_agent, UpstreamOf(es, i))
      [] es[i].stage = "rewrite" ->
             rewrite_for_ats_task(build_ats_writer_agent, UpstreamOf(es, i),
                                  run.job_title, run.job_description)
      [] es[i].stage = "refine" ->
             refine_bullets_task(build_refiner_agent, UpstreamOf(es, i))
      [] es[i].stage = "evaluate" ->
             evaluate_ats_task(build_evaluator_agent, UpstreamOf(es, i),
                               run.job_title, run.job_description)
      [] OTHER -> NoTask

Contains(args, text) == \E j \in 1..Len(args) : args[j] = text

\* C2: the prompt of every stage's call is built from the output the stage before it
\* actually returned (the extracted text for stage 1) and from the job title and
\* description the front-end passed, which stay what they were; no prompt carries
\* build_crew's placeholder.
C2_PromptFromPreviousStageOnly ==
    /\ Invoked =>
          /\ run.raw_resume_text = extracted[1].text
          /\ run.job_title = Strip(form.job_title)
          /\ run.job_description = Strip(form.job_description)
    /\ \A p \in Passes :
          LET es == EventsOf(p)
          IN  \A i \in 1..Len(es) :
                  es[i].ev = "call" =>
                      /\ i > 1 => es[i - 1].ev = "return"
                      /\ es[i].task = TaskAsClaimed(es, i)
                      /\ ~Contains(es[i].task.description.args, RefinePlaceholder)

\* All four stages ran and their outputs differ from one another.
C2_Witness ==
    /\ pc = "returned"
    /\ run.cleaned # run.rewritten /\ run.rewritten # run.final_resume
    /\ run.cleaned # run.final_resume /\ run.cleaned # run.raw_resume_text
    /\ events[5].task.description.args = <<run.rewritten>>
    /\ events[7].task.description.args[3] = run.final_resume

ItemsOf(p) == SelectSeq(out, LAMBDA item : item.pass = p)

\* C4: once a stage's call has raised, run_pipeline is over: the raise is the run's
\* last event, what the stages after it would have produced is never set, and the
\* caller gets one error and none of the texts computed so far.
C4_FailedStageAbortsRun ==
    \A p \in Passes :
        LET es == EventsOf(p)
            items == ItemsOf(p)
        IN  Raised(es) =>
                /\ es[Len(es)].ev = "raise"
                /\ \A i \in 1..(Len(es) - 1) : es[i].ev # "raise"
                /\ pc = "done"
                /\ Len(items) = 1
                /\ items[1].error # "" /\ items[1].payload = <<>>
                /\ items[1].kind \in {"json", "st.error"}
                /\ frontend = "flask" => items[1].status = 500
                /\ ~ResultReturned(p)

\* Stage 2 fails after stage 1 has produced a non-empty `cleaned`.
C4_Witness ==
    /\ Len(events) = 4
    /\ events[4].ev = "raise" /\ events[4].stage = "rewrite"
    /\ run.cleaned # NoText
    /\ frontend = "flask"

\* C5: within a run each stage is called at most once, each call's agent has an
\* attempt budget of 1 and a time limit of 120 seconds, and no call follows a raise.
C5_NoRetries ==
    \A p \in Passes :
        LET es == EventsOf(p)
        IN  /\ \A k \in 1..Len(StageOrder) : Cardinality(CallsOf(es, StageOrder[k])) <= 1
            /\ \A i \in 1..Len(es) :
                  /\ es[i].ev = "call" =>
                        /\ es[i].task.agent.max_iter = 1
                        /\ es[i].task.agent.max_execution_time = 120
                  /\ es[i].ev = "raise" => \A j \in (i + 1)..Len(es) : es[j].ev # "call"

\* The refine stage was called with its agent, and its call raised.
C5_Witness ==
    /\ Len(events) = 6
    /\ events[5].ev = "call" /\ events[5].task.agent = build_refiner_agent
    /\ events[6].ev = "raise"
    /\ pc = "done"

CouldNotExtract(item) ==
    /\ item.error = "Could not extract text from file"
    /\ item.kind = "json" => item.status = 400

BlankExtraction(i) ==
    i \in 1..Len(extracted) /\ ~extracted[i].raised /\ Blank(extracted[i].text)

\* C9: in both front-ends an extraction that gives empty or whitespace-only text is
\* answered with an error and run_pipeline is not entered for it: no generation call
\* is made, and run_pipeline is only ever given text that is not blank.
C9_BlankTextRejectedBeforeRun ==
    /\ Invoked => ~Blank(run.raw_resume_text)
    /\ BlankExtraction(1) => ~Invoked
    /\ \A i \in 1..Len(extracted) :
          BlankExtraction(i) =>
              /\ EventsOf(i) = <<>>
              /\ \E j \in 1..Len(out) : out[j].pass = i /\ CouldNotExtract(out[j])
              /\ \A j \in 1..Len(out) : out[j].pass = i => out[j].payload = <<>>

\* Both front-ends turn down a file whose text is whitespace only.
C9_Witness ==
    /\ upload.text = <<" ", "\n">>
    /\ BlankExtraction(1)
    /\ pc = "done" /\ events = <<>>
    /\ \E j \in 1..Len(out) : CouldNotExtract(out[j])

FileType(filename) == AfterLastDot(Lower(filename))

Missing(text) == Blank(text)

InvalidSubmission ==
    \/ ~upload.present
    \/ Missing(form.job_title) \/ Missing(form.job_description)
    \/ ~HasDot(upload.name) \/ FileType(upload.name) \notin ALLOWED_EXTENSIONS

\* C10: whenever run_pipeline is entered a file was uploaded, its type is pdf, docx
\* or txt and the job title and description passed are non-empty; a submission
\* without a file, without a job title or description (empty or whitespace only) or
\* with another file type is turned down with a message and makes no generation call.
C10_InvalidInputNeverEntersRun ==
    /\ Invoked =>
          /\ upload.present
          /\ HasDot(upload.name) /\ FileType(upload.name) \in ALLOWED_EXTENSIONS
          /\ run.job_title # NoText
          /\ run.job_description # NoText
    /\ InvalidSubmission =>
          /\ ~Invoked
          /\ pc = "done" => \E j \in 1..Len(out) : out[j].error # ""

(***************************************************************************)
(* C11: stage results are trimmed.                                         *)
(***************************************************************************)
Trimmed(s) == s = NoText \/ (s[1] \notin Whitespace /\ s[Len(s)] \notin Whitespace)

\* t is s without the whitespace s begins and ends with.
IsTrimOf(t, s) ==
    /\ Trimmed(t)
    /\ \E i \in 1..(Len(s) + 1) :
          /\ i + Len(t) - 1 <= Len(s)
          /\ t = SubSeq(s, i, i + Len(t) - 1)
          /\ \A k \in 1..Len(s) : (k < i \/ k > i + Len(t) - 1) => s[k] \in Whitespace

\* The local of run_pipeline a stage's result is kept in.
FieldOf(stage) ==
    CASE stage = "parse" -> run.cleaned
      [] stage = "rewrite" -> run.rewritten
      [] stage = "refine" -> run.final_resume
      [] OTHER -> run.evaluation

TaskFrom(stage, upstream) ==
    CASE stage = "rewrite" ->
             rewrite_for_ats_task(build_ats_writer_agent, upstream,
                                  run.job_title, run.job_description)
      [] stage = "refine" -> refine_bullets_task(build_refiner_agent, upstream)
      [] stage = "evaluate" ->
             evaluate_ats_task(build_evaluator_agent, upstream,
                               run.job_title, run.job_description)
      [] OTHER -> parse_resume_task(build_parser_agent, upstream)

\* C11: what run_pipeline keeps of every stage's result is that result without its
\* leading and trailing whitespace; that trimmed value is what the next stage's
\* prompt builder is given, and the four values run_pipeline returns are trimmed.
C11_ResultsTrimmed ==
    /\ \A i \in 1..Len(events) :
          /\ events[i].ev = "return" => IsTrimOf(FieldOf(events[i].stage), events[i].result)
          /\ (events[i].ev = "call" /\ i > 1) =>
                /\ events[i].task = TaskFrom(events[i].stage, FieldOf(events[i - 1].stage))
                /\ Trimmed(FieldOf(events[i - 1].stage))
    /\ \A j \in 1..Len(out) :
          \A k \in 1..Len(out[j].payload) : Trimmed(out[j].payload[k])

\* A result with whitespace on both sides was returned, trimmed and given back.
C11_Witness ==
    /\ \E j \in 1..Len(out) : out[j].payload # <<>> /\ out[j].payload[1] = <<"a">>
    /\ events[2].result = <<" ", "a", "\n">>
    /\ run.cleaned = <<"a">>

(***************************************************************************)
(* C12: non-empty results.                                                 *)
(***************************************************************************)
NonEmptyRequest ==
    /\ Invoked
    /\ run.raw_resume_text # NoText
    /\ run.job_title # NoText
    /\ run.job_description # NoText

\* C12: a run on a non-empty raw text, job title and job description never calls a
\* stage with empty upstream text, and the four texts it returns are non-empty.
C12_FourNonEmptyResults ==
    NonEmptyRequest =>
        /\ \A i \in 2..Len(events) :
              events[i].ev = "call" => FieldOf(events[i - 1].stage) # NoText
        /\ (\E p \in Passes : ResultReturned(p)) =>
              /\ run.cleaned # NoText /\ run.rewritten # NoText
              /\ run.final_resume # NoText /\ run.evaluation # NoText

(***************************************************************************)
(* C13: the extractor's format tag, and its answer to binary input.        *)
(***************************************************************************)
FormatTags == {"pdf", "docx", "txt", "bin"}

\* The name detect_and_extract is given: app.py passes secure_filename's result.
NameGiven == IF frontend = "flask" THEN secure_filename(upload.name) ELSE upload.name

TagOfName(filename) ==
    IF EndsWith(Lower(filename), <<".", "p", "d", "f">>) THEN "pdf"
    ELSE IF EndsWith(Lower(filename), <<".", "d", "o", "c", "x">>) THEN "docx"
    ELSE "txt"

\* The bytes are no PDF, no DOCX package and no decodable text.
BinaryInput == upload.present /\ upload.kind = "bin"

\* C13: detect_and_extract answers with a tag of the fixed set, chosen from the
\* filename's extension whatever its case, and for bytes that are no PDF, no DOCX
\* and no decodable text it answers with empty text (which the caller turns down).
C13_TagFromFixedSetEmptyOnBinary ==
    Len(extracted) >= 1 =>
        /\ ~extracted[1].raised =>
              /\ extracted[1].ext \in FormatTags
              /\ extracted[1].ext = TagOfName(NameGiven)
        /\ BinaryInput =>
              /\ ~extracted[1].raised
              /\ extracted[1].text = NoText
              /\ ~Invoked

(***************************************************************************)
(* C14: the length of a prompt.                                            *)
(***************************************************************************)
\* len(description): the literal text and the texts interpolated into it.
PromptLength(fixed, task) ==
    LET a == task.description.args
    IN  fixed + (IF Len(a) = 1 THEN Len(a[1]) ELSE Len(a[1]) + Len(a[2]) + Len(a[3]))

\* The budget a truncated job title would have at most: the largest of tasks.py.
LargestBudget == MaxOf(Budgets)

\* The length a prompt has at most when every text in it is cut to its budget.
ParsePromptBound == ParseFixedLength + ParseResumeBudget + Len(Marker)
RewritePromptBound ==
    RewriteFixedLength + (LargestBudget + Len(Marker))
        + (RewriteJdBudget + Len(Marker)) + (RewriteResumeBudget + Len(Marker))
RefinePromptBound == RefineFixedLength + RefineResumeBudget + Len(Marker)
EvaluatePromptBound ==
    EvaluateFixedLength + (LargestBudget + Len(Marker))
        + (EvaluateJdBudget + Len(Marker)) + (EvaluateResumeBudget + Len(Marker))

\* C14: whatever the lengths of the raw text, the job title and the job description,
\* the prompt each of the four builders makes is no longer than a fixed number of
\* characters, each text embedded in it (the job title too) being cut to a budget.
C14_PromptLengthBounded ==
    /\ t_pc = "parse" => PromptLength(ParseFixedLength, t_task) <= ParsePromptBound
    /\ t_pc = "rewrite" => PromptLength(RewriteFixedLength, t_task) <= RewritePromptBound
    /\ t_pc = "refine" => PromptLength(RefineFixedLength, t_task) <= RefinePromptBound
    /\ t_pc = "evaluate" => PromptLength(EvaluateFixedLength, t_task) <= EvaluatePromptBound

(***************************************************************************)
(* Two runs of run_pipeline at once (two requests served by two threads).  *)
(* Each call of run_pipeline has its own frame: its arguments and locals.  *)
(* The module-level names it reads (MODEL, the builders) are never         *)
(* assigned after import.                                                  *)
(***************************************************************************)
Runs == {1, 2}

ConcRequests ==
    <<[raw_resume_text |-> <<"j", "d">>, job_title |-> <<"d", "e", "v">>,
       job_description |-> <<"p", "y">>],
      [raw_resume_text |-> <<"c", "v">>, job_title |-> <<"o", "p", "s">>,
       job_description |-> <<"g", "o">>]>>

ConcGenTexts == {<<" ", "a", "\n">>, <<"b">>}

Stages == <<"parse", "rewrite", "refine", "evaluate">>
Locals == <<"cleaned", "rewritten", "final_resume", "evaluation">>

NewFrame(request) ==
    [request |-> request, k |-> 1, phase |-> "kickoff",
     cleaned |-> NoText, rewritten |-> NoText, final_resume |-> NoText,
     evaluation |-> NoText, events |-> <<>>]

\* The mutant: a run reads the local of the other run's frame.
ConcReadOther(r, name) == c_runs[3 - r][name]

\* A read of the local `name` in the frame of run r.
ConcRead(r, name) == c_runs[r][name]

\* crew.py:98, 114, 128, 142: the Task of the stage run r is at.
ConcTask(r) ==
    LET request == c_runs[r].request
        k == c_runs[r].k
    IN  CASE k = 1 -> parse_resume_task(build_parser_agent, request.raw_resume_text)
          [] k = 2 -> rewrite_for_ats_task(build_ats_writer_agent, ConcRead(r, "cleaned"),
                                           request.job_title, request.job_description)
          [] k = 3 -> refine_bullets_task(build_refiner_agent, ConcRead(r, "rewritten"))
          [] OTHER -> evaluate_ats_task(build_evaluator_agent, ConcRead(r, "final_resume"),
                                        request.job_title, request.job_description)

ConcEvent(ev, r, task, result) ==
    [ev |-> ev, stage |-> Stages[c_runs[r].k], task |-> task, result |-> result]

\* crew.py:98-109 (114-123, 128-137, 142-151): run r builds its stage's Task and crew
\* and calls kickoff().
ConcKickoff(r) ==
    /\ c_runs[r].phase = "kickoff"
    /\ c_runs' = [c_runs EXCEPT
                    ![r].events = Append(@, ConcEvent("call", r, ConcTask(r), NoText)),
                    ![r].phase = "wait"]
    /\ UNCHANGED <<mainVars, truncVars, evalVars, pdfVars>>

\* crew.py:109-110 (123-124, 137-138, 151-155): kickoff() returns to run r.
ConcReturns(r) ==
    /\ c_runs[r].phase = "wait"
    /\ \E result \in ConcGenTexts :
          c_runs' = [c_runs EXCEPT
                       ![r].events = Append(@, ConcEvent("return", r, NoTask, result)),
                       ![r][Locals[c_runs[r].k]] = Strip(result),
                       ![r].k = IF @ = Len(Stages) THEN @ ELSE @ + 1,
                       ![r].phase = IF c_runs[r].k = Len(Stages) THEN "returned"
                                    ELSE "kickoff"]
    /\ UNCHANGED <<mainVars, truncVars, evalVars, pdfVars>>

\* kickoff() raises in run r, and the exception leaves run_pipeline.
ConcRaises(r) ==
    /\ c_runs[r].phase = "wait"
    /\ c_runs' = [c_runs EXCEPT
                    ![r].events = Append(@, ConcEvent("raise", r, NoTask, NoText)),
                    ![r].phase = "failed"]
    /\ UNCHANGED <<mainVars, truncVars, evalVars, pdfVars>>

ConcInit ==
    /\ c_runs = [r \in Runs |-> NewFrame(ConcRequests[r])]
    /\ MainIdle /\ TruncIdle /\ EvalIdle /\ PdfIdle

ConcNext == \E r \in Runs : ConcKickoff(r) \/ ConcReturns(r) \/ ConcRaises(r)

SpecConc == ConcInit /\ [][ConcNext]_vars

(***************************************************************************)
(* C15: concurrent runs are independent.                                   *)
(***************************************************************************)
\* What the k-th call of a run has to be built from, by the run's own events.
OwnUpstream(frame, i) ==
    IF i = 1 THEN frame.request.raw_resume_text ELSE Strip(frame.events[i - 1].result)

OwnTask(frame, i) ==
    CASE frame.events[i].stage = "parse" ->
             parse_resume_task(build_parser_agent, OwnUpstream(frame, i))
      [] frame.events[i].stage = "rewrite" ->
             rewrite_for_ats_task(build_ats_writer_agent, OwnUpstream(frame, i),
                                  frame.request.job_title, frame.request.job_description)
      [] frame.events[i].stage = "refine" ->
             refine_bullets_task(build_refiner_agent, OwnUpstream(frame, i))
      [] OTHER ->
             evaluate_ats_task(build_evaluator_agent, OwnUpstream(frame, i),
                               frame.request.job_title, frame.request.job_description)

\* C15: under every interleaving of two runs, each run's prompts are built from its
\* own request and its own generation results, its request stays as given, and the
\* four texts it returns are the trimmed results of its own four calls.
C15_RunsIndependent ==
    \A r \in Runs :
        LET frame == c_runs[r]
        IN  /\ frame.request = ConcRequests[r]
            /\ \A i \in 1..Len(frame.events) :
                  frame.events[i].ev = "call" => frame.events[i].task = OwnTask(frame, i)
            /\ frame.phase = "returned" =>
                  /\ Len(frame.events) = 2 * Len(Stages)
                  /\ \A k \in 1..Len(Stages) :
                        frame[Locals[k]] = Strip(frame.events[2 * k].result)

\* Both runs returned, their calls interleaved, with different results.
C15_Witness ==
    /\ c_runs[1].phase = "returned" /\ c_runs[2].phase = "returned"
    /\ c_runs[1].cleaned = <<"a">> /\ c_runs[2].cleaned = <<"b">>
    /\ c_runs[1].evaluation # c_runs[2].evaluation

(***************************************************************************)
(* C16: the score view and absent fields.                                  *)
(***************************************************************************)
FieldKeys == <<OverallScoreKey, BreakdownKey, MissingKeywordsKey, QuickWinsKey>>

ListOfStr(x) == x.t = "arr" /\ \A i \in 1..Len(x.v) : x.v[i].t = "str"

\* Every field of the record that is present has the type the evaluation record
\* gives it: a number, a mapping, and two lists of strings.
PresentFieldsWellTyped(d) ==
    /\ OverallScoreKey \in DOMAIN d => d[OverallScoreKey].t = "num"
    /\ BreakdownKey \in DOMAIN d => d[BreakdownKey].t = "obj"
    /\ MissingKeywordsKey \in DOMAIN d => ListOfStr(d[MissingKeywordsKey])
    /\ QuickWinsKey \in DOMAIN d => ListOfStr(d[QuickWinsKey])

\* The subset of the four fields the text RecordText(S) has.
SubsetOf(text) == CHOOSE S \in SUBSET (1..Len(RecordFields)) : RecordText(S) = text

\* C16: the Streamlit score view raises for no parsed record whose present fields are
\* well typed, whichever of overall_score, breakdown, missing_keywords and quick_wins
\* are absent; it shows the record with the fields it has.
C16_AbsentFieldsRaiseNoError ==
    e_view.done =>
        LET parsed == StreamlitParseEvaluation(e_text)
        IN  /\ (parsed.t = "obj" /\ PresentFieldsWellTyped(parsed.v)) => ~e_view.raised
            /\ e_text \in RecordTexts =>
                  /\ ~e_view.raised
                  /\ e_view.view = "structured"
                  /\ \A k \in 1..Len(FieldKeys) :
                        FieldKeys[k] \in DOMAIN e_view.parsed.v <=> k \in SubsetOf(e_text)

\* The view of a record that has quick_wins and none of the other three fields.
C16_Witness ==
    /\ e_text = RecordText({4})
    /\ e_view.done /\ ~e_view.raised /\ e_view.view = "structured"
    /\ OverallScoreKey \notin DOMAIN e_view.parsed.v
    /\ QuickWinsKey \in DOMAIN e_view.parsed.v

(***************************************************************************)
(* C17: the payloads of the Flask /process endpoint.                       *)
(***************************************************************************)
\* {'success': True, 'cleaned', 'rewritten', 'final', 'evaluation'}, status 200.
SuccessPayload(item) ==
    /\ item.kind = "json" /\ item.status = 200 /\ item.error = ""
    /\ item.payload = <<run.cleaned, run.rewritten, run.final_resume, run.evaluation>>
    /\ item.eval.done /\ ~item.eval.raised

\* {'error': message} and none of the four artifacts.
ErrorPayload(item) ==
    /\ item.kind = "json" /\ item.status \in {400, 500}
    /\ item.error # ""
    /\ item.payload = <<>> /\ item.eval = NotYet

\* C17: a request to /process is answered with exactly one payload, a success
\* payload with all four artifacts after a run that returned, or an error payload
\* with a message and no artifact: status 400 for a validation failure, and one
\* status-500 error payload when run_pipeline failed.
C17_OneSuccessOrErrorPayload ==
    (frontend = "flask" /\ config = "set") =>
        /\ Len(out) <= 1
        /\ pc # "done" => out = <<>>
        /\ pc = "done" =>
              /\ Len(out) = 1
              /\ SuccessPayload(out[1]) \/ ErrorPayload(out[1])
              /\ SuccessPayload(out[1]) <=> ResultReturned(1)
              /\ (InvalidSubmission \/ BlankExtraction(1)) =>
                    ErrorPayload(out[1]) /\ out[1].status = 400
              /\ Raised(events) => ErrorPayload(out[1]) /\ out[1].status = 500

\* A run that failed at its third stage is answered with the status-500 payload.
C17_Witness ==
    /\ frontend = "flask" /\ pc = "done"
    /\ Len(events) = 6 /\ events[6].ev = "raise"
    /\ out = <<FlaskError(500, "str(e)")>>

(***************************************************************************)
(* Runs whose generation results are longer than every budget              *)
(* (specification SpecLong): one valid submission to each front-end.       *)
(***************************************************************************)
\* A generation result whose trimmed text is longer than the largest budget.
LongOutput ==
    <<" ">> \o [i \in 1..(ParseResumeBudget + Margin) |-> IF i % 7 = 0 THEN " " ELSE "x"]
        \o <<"\n">>

LongGenTexts == {<<"b">>, LongOutput}

LongInit ==
    /\ config = "set" /\ gen = LongGenTexts
    /\ frontend \in {"flask", "streamlit"}
    /\ upload = [present |-> TRUE, name |-> <<"c", "v", ".", "t", "x", "t">>,
                 kind |-> "text", text |-> <<"j", "d">>]
    /\ form = [job_title |-> <<" ", "d", "e", "v">>, job_description |-> <<"p", "y", " ">>]
    /\ pc = "import" /\ pass = 1 /\ loc = NoLoc /\ stream_read = FALSE
    /\ extracted = <<>> /\ run = NoRun /\ events = <<>> /\ out = <<>>
    /\ TruncIdle /\ EvalIdle /\ ConcIdle /\ PdfIdle

SpecLong == LongInit /\ [][Next]_vars

(***************************************************************************)
(* C18: truncation touches only the copy embedded in a prompt.             *)
(***************************************************************************)
\* The budget the result of stage k is cut to in the prompt of stage k + 1.
NextBudget == <<RewriteResumeBudget, RefineResumeBudget, EvaluateResumeBudget>>

\* The resume text embedded in a task's description.
EmbeddedResume(task) == task.description.args[Len(task.description.args)]

\* C18: the cleaned, rewritten and final texts run_pipeline keeps and returns are the
\* complete trimmed generation results, however long; only the copy embedded in the
\* next stage's prompt is cut to the budget and given the marker.
C18_ResultsNeverTruncated ==
    /\ \A k \in 1..3 :
          2 * k <= Len(events) /\ events[2 * k].ev = "return" =>
              LET complete == Strip(events[2 * k].result)
              IN  /\ FieldOf(StageOrder[k]) = complete
                  /\ 2 * k + 1 <= Len(events) =>
                        EmbeddedAsClaimed(complete, EmbeddedResume(events[2 * k + 1].task),
                                          NextBudget[k])
                  /\ \A j \in 1..Len(out) :
                        out[j].payload # <<>> => out[j].payload[k] = complete

\* The rewrite stage returned a text longer than the refine budget: the refine prompt
\* holds its first 1000 characters and the marker, the payload the whole text.
C18_Witness ==
    /\ pc = "done" /\ frontend = "flask"
    /\ Len(out) = 1 /\ out[1].payload # <<>>
    /\ Len(out[1].payload[2]) = ParseResumeBudget + Margin
    /\ Len(EmbeddedResume(events[5].task)) = RefineResumeBudget + Len(Marker)

(***************************************************************************)
(* C19: the API credential at startup.                                     *)
(***************************************************************************)
\* Something of a request was handled: an input validated, a file read, a run begun.
RequestHandled ==
    \/ pc \notin {"import", "failed"}
    \/ extracted # <<>> \/ stream_read \/ Invoked
    \/ \E j \in 1..Len(out) : out[j] # StartupError

\* C19: when OPENAI_API_KEY is absent at process start, startup fails with an error
\* that names the variable, before anything of a request is handled and before any
\* generation call; a generation call is only ever made with the key present.
C19_MissingKeyFailsAtStartup ==
    /\ config = "absent" =>
          /\ ~RequestHandled
          /\ events = <<>>
          /\ pc = "failed" <=> out = <<StartupError>>
          /\ pc = "import" => out = <<>>
    /\ events # <<>> => config = "set"

\* Startup has failed for want of the key.
C19_Witness ==
    /\ config = "absent" /\ pc = "failed"
    /\ out = <<StartupError>>
    /\ upload.present /\ ~Blank(form.job_title)

(***************************************************************************)
(* C20: one click of the Streamlit run button.                             *)
(***************************************************************************)
IsError(item) == item.kind \in {"st.error", "exception"}
ResultsShown(j) == out[j].kind = "tabs" /\ out[j].payload # <<>>

\* The number of validation messages the script has shown.
ValidationErrors ==
    Cardinality({j \in 1..Len(out) :
        out[j].error \in {"Please upload a resume file",
                          "Please provide job title and description"}})

\* C20: in the Streamlit front-end one click is handled once: the upload is read and
\* its text extracted at most once, at most one validation message is shown, and
\* after the results of a run are shown no error is reported.
C20_ClickHandledOnce ==
    frontend = "streamlit" =>
        /\ Len(extracted) <= 1
        /\ ValidationErrors <= 1
        /\ Cardinality({i \in 1..Len(events) :
                            events[i].ev = "call" /\ events[i].stage = "parse"}) <= 1
        /\ \A j \in 1..Len(out) :
              ResultsShown(j) /\ ~out[j].eval.raised =>
                  \A m \in (j + 1)..Len(out) : ~IsError(out[m])

(***************************************************************************)
(* C21: the two front-ends on the same evaluation text.                    *)
(***************************************************************************)
\* The Flask payload's evaluation is the raw fallback {'raw': evaluation}.
FlaskGaveRaw ==
    e_flask.parsed_eval = [t |-> "obj", v |-> DictPut(EmptyDict, RawKey, PyStr(e_text))]

\* C21: for every evaluation text the Flask endpoint gives a structured evaluation
\* exactly when the Streamlit score view shows a structured record, and gives the raw
\* fallback exactly when the view shows the raw text (for a list, a bare number and
\* the empty mapping too).
C21_FrontEndsClassifyAlike ==
    (e_flask.done /\ e_view.done) => (FlaskGaveRaw <=> e_view.view = "raw")

(***************************************************************************)
(* C22: the extension validated and the extractor chosen (Flask).          *)
(***************************************************************************)
\* The format tag of an extension of ALLOWED_EXTENSIONS.
TagOfExtension(ext) ==
    CASE ext = <<"p", "d", "f">> -> "pdf"
      [] ext = <<"d", "o", "c", "x">> -> "docx"
      [] ext = <<"t", "x", "t">> -> "txt"
      [] OTHER -> ""

\* C22: in the Flask endpoint, for every upload that passes allowed_file, the format
\* detect_and_extract takes the file for is the extension allowed_file accepted, also
\* after secure_filename has rewritten the name.
C22_ExtractorMatchesValidatedExtension ==
    (frontend = "flask" /\ Len(extracted) >= 1) =>
        /\ allowed_file(upload.name)
        /\ TagOfName(secure_filename(upload.name)) = TagOfExtension(FileType(upload.name))
        /\ ~extracted[1].raised => extracted[1].ext = TagOfExtension(FileType(upload.name))

(***************************************************************************)
(* C23: the .env file and the credential check.                            *)
(***************************************************************************)
\* C23: in both front-ends an OPENAI_API_KEY given only in the .env file is in the
\* environment when agents.py checks for it, so startup does not fail.
C23_DotenvKeySeenAtStartup ==
    config = "dotenv" => (pc # "failed" /\ out # <<StartupError>>)

(***************************************************************************)
(* The PDF generator (pdf_generator.py).                                   *)
(***************************************************************************)
\* pdf_generator.py:85, 92: a title or a section heading is shorter than this.
HeadingLimit == 50

\* The letters of the model's texts that have a case.
PdfUpper == {"A"}
PdfLower == {"a"}

\* s.isupper(): there is a cased character and no cased character is lower case.
IsUpper(s) ==
    /\ \E i \in 1..Len(s) : s[i] \in PdfUpper
    /\ \A i \in 1..Len(s) : s[i] \notin PdfLower

RECURSIVE Split(_, _)
\* s.split(sep), sep one character: the pieces between the separators, empty ones too.
Split(s, sep) ==
    IF \A i \in 1..Len(s) : s[i] # sep THEN <<s>>
    ELSE LET k == MinOf({i \in 1..Len(s) : s[i] = sep})
         IN  <<SubSeq(s, 1, k - 1)>> \o Split(SubSeq(s, k + 1, Len(s)), sep)

\* s.lstrip(c)
LStripChar(s, c) ==
    LET kept == {i \in 1..Len(s) : s[i] # c}
    IN  IF kept = {} THEN NoText ELSE SubSeq(s, MinOf(kept), Len(s))

RECURSIVE ReplaceChar(_, _, _)
\* s.replace(c, r), c one character.
ReplaceChar(s, c, r) ==
    IF s = <<>> THEN <<>>
    ELSE (IF Head(s) = c THEN r ELSE <<Head(s)>>) \o ReplaceChar(Tail(s), c, r)

Amp == <<"&", "a", "m", "p", ";">>
Lt == <<"&", "l", "t", ";">>
Gt == <<"&", "g", "t", ";">>

\* pdf_generator.py:98
EscapeMarkup(line) == ReplaceChar(ReplaceChar(ReplaceChar(line, "&", Amp), "<", Lt), ">", Gt)

\* Spacer(1, 0.1*inch) and Paragraph(text, style)
Spacer == [kind |-> "Spacer", text |-> NoText, style |-> ""]
Paragraph(text, style) == [kind |-> "Paragraph", text |-> text, style |-> style]

\* pdf_generator.py:77-99: the flowable one line of text_content adds.
FlowableOf(raw) ==
    LET line == Strip(raw)
    IN  IF line = NoText THEN Spacer
        ELSE IF IsUpper(line) /\ Len(line) < HeadingLimit
             THEN Paragraph(line, "title_style")
        ELSE IF Len(line) >= 1 /\ line[1] = "#"
             THEN Paragraph(Strip(LStripChar(line, "#")), "heading_style")
        ELSE IF line[Len(line)] = ":" /\ Len(line) < HeadingLimit
             THEN Paragraph(line, "heading_style")
        ELSE Paragraph(EscapeMarkup(line), "body_style")

\* pdf_generator.py:74-102: the elements generate_pdf_resume hands to doc.build.
generate_pdf_resume(text_content) ==
    LET lines == Split(text_content, "\n")
    IN  [i \in 1..Len(lines) |-> FlowableOf(lines[i])]

PdfAlphabet == {"A", "a", "#", ":", "&", "<", ">", " ", "\n"}

\* Lines of HeadingLimit - 1 and HeadingLimit characters: upper case, and ending in ':'.
PdfLimitTexts ==
    UNION {{[i \in 1..n |-> "A"],
            [i \in 1..n |-> IF i = n THEN ":" ELSE "a"],
            [i \in 1..n |-> IF i = 1 THEN "#" ELSE "A"]} :
           n \in {HeadingLimit - 1, HeadingLimit}}

PdfTexts == PdfLimitTexts \cup UNION {[1..n -> PdfAlphabet] : n \in 0..MaxPdfLen}

PdfInit ==
    /\ p_pc = "in"
    /\ p_text \in PdfTexts
    /\ p_elements = <<>>
    /\ MainIdle /\ TruncIdle /\ EvalIdle /\ ConcIdle

\* pdf_generator.py:14-108, called at app.py:142.
GeneratePdf ==
    /\ p_pc = "in"
    /\ p_elements' = generate_pdf_resume(p_text)
    /\ p_pc' = "built"
    /\ UNCHANGED <<p_text, mainVars, truncVars, evalVars, concVars>>

PdfNext == GeneratePdf

SpecPdf == PdfInit /\ [][PdfNext]_vars

(***************************************************************************)
(* C24: the classes of the lines of a PDF resume, and their escaping.      *)
(***************************************************************************)
\* The class of a non-empty stripped line, in the priority order title, markdown
\* heading, section heading, body.
ClassOf(line) ==
    CASE IsUpper(line) /\ Len(line) < HeadingLimit -> "title"
      [] ~(IsUpper(line) /\ Len(line) < HeadingLimit) /\ Head(line) = "#" -> "markdown"
      [] ~(IsUpper(line) /\ Len(line) < HeadingLimit) /\ Head(line) # "#"
         /\ line[Len(line)] = ":" /\ Len(line) < HeadingLimit -> "section"
      [] OTHER -> "body"

StyleOfClass(class) ==
    CASE class = "title" -> "title_style"
      [] class \in {"markdown", "section"} -> "heading_style"
      [] OTHER -> "body_style"

\* The text of a line of a class, before escaping.
TextOfClass(line, class) ==
    IF class = "markdown" THEN Strip(LStripChar(line, "#")) ELSE line

RECURSIVE Escaped(_)
\* s with every '&', '<' and '>' written as its entity.
Escaped(s) ==
    IF s = <<>> THEN <<>>
    ELSE (CASE Head(s) = "&" -> Amp
            [] Head(s) = "<" -> Lt
            [] Head(s) = ">" -> Gt
            [] OTHER -> <<Head(s)>>) \o Escaped(Tail(s))

\* The lines of text_content, stripped.
PdfLines == LET lines == Split(p_text, "\n") IN [i \in 1..Len(lines) |-> Strip(lines[i])]

\* Every non-empty stripped line has become a paragraph of the style of its class.
PdfClassified ==
    p_pc = "built" =>
        /\ Len(p_elements) = Len(PdfLines)
        /\ \A i \in 1..Len(PdfLines) :
              PdfLines[i] # NoText =>
                  /\ p_elements[i].kind = "Paragraph"
                  /\ p_elements[i].style = StyleOfClass(ClassOf(PdfLines[i]))

\* C24: generate_pdf_resume puts every non-empty stripped line into exactly one of the
\* classes title (all upper case, shorter than 50), markdown heading (starts with '#'),
\* section heading (ends with ':', shorter than 50) and body, in that priority order,
\* and the text given to Paragraph has '&', '<' and '>' escaped whatever the class.
C24_LinesClassifiedAndEscaped ==
    /\ PdfClassified
    /\ p_pc = "built" =>
          \A i \in 1..Len(PdfLines) :
              PdfLines[i] # NoText =>
                  p_elements[i].text =
                      Escaped(TextOfClass(PdfLines[i], ClassOf(PdfLines[i])))

====
